---- MODULE Spec2Model ----
(***************************************************************************)
(* Fitness-class booking API: the four tables of database.py, the seed     *)
(* loader, and the /book and /bookings handlers of auth/routes.py.         *)
(*                                                                         *)
(* Tables are sequences of rows in insertion order; a row's primary key    *)
(* is its index (autoincrement, no row is ever deleted).  Row 0 stands     *)
(* for Python's None wherever a query returns "no row".                    *)
(* Instants are minutes since midnight UTC of day 0.                       *)
(***************************************************************************)
EXTENDS Integers, Sequences, FiniteSets, TLC

\* ------------------------------------------------------------------ bounds
MaxDay == 1            \* calendar days the clock may advance
MaxCapacity == 2       \* largest capacity given to create_session by hand
MaxSessions == 6       \* create_session by hand only below this many rows
NumWorkers == 2        \* requests that may be in flight together

\* capacity=10 in insert_sample_sessions
SeedCapacity == 10

Workers == 1..NumWorkers

\* ------------------------------------------------------------------ values
Absent == "<absent>"                    \* dict.get() / args.get() -> None
Truthy(v) == v \notin {Absent, ""}      \* Python truthiness of None / str

AliceEmail == "alice@example.com"
BobEmail == "bob@example.com"
NobodyEmail == "nobody@example.com"

\* session_id 0 stands for an absent key as well as a literal 0: both falsy
BookRequests ==
  [client_name : {Absent, "Bob"},
   client_email : {"", AliceEmail, BobEmail, NobodyEmail},
   session_id : {0, 5, 6, 99}]

\* requests made while the store is being seeded: the first session of each seeding
SeedBookRequests ==
  [client_name : {"Bob"}, client_email : {AliceEmail, BobEmail}, session_id : {1, 5}]

BookingsRequests ==
  [email : {Absent, AliceEmail, BobEmail, NobodyEmail},
   timezone : {Absent, "UTC", "Mars/Nowhere"}]

VARIABLES
  today,       \* current date in Asia/Kolkata, a day number
  classes,     \* table classes : rows [name, description]
  clients,     \* table clients : rows [name, email]
  sessions,    \* table sessions: rows [class_id, start_time_utc, end_time_utc, capacity]
  bookings,    \* table bookings: rows [client_id, session_id]
  pc,          \* per worker: "idle" or "commit" (between the reads and the commit of /book)
  pending,     \* per worker: the request in hand and the Booking built at routes.py:52
  lastResp,    \* the HTTP response returned last, with its request: [op, req, status, body]
  booked200,   \* history: the <<client_id, session_id>> of every /book answered 200
  seedRuns     \* history: per day, how often seed_all has run (0, 1, 2 = more than once)

tables == <<classes, clients, sessions, bookings>>
vars ==
  <<today, classes, clients, sessions, bookings, pc, pending, lastResp, booked200, seedRuns>>

\* ------------------------------------------------------------------ queries
\* Query.filter_by(...).first(): lowest id among the matching rows, 0 for None
First(hit) == IF hit = {} THEN 0 ELSE CHOOSE i \in hit : \A j \in hit : i <= j

ClassByName(cls, name) == First({i \in DOMAIN cls : cls[i].name = name})
ClientByEmail(cli, email) == First({i \in DOMAIN cli : cli[i].email = email})
\* bug: the start-time lookup never finds the session
SessionByStartNever(ses, start) == 0

SessionByStart(ses, start) == First({i \in DOMAIN ses : ses[i].start_time_utc = start})

\* Session.query.get(session_id): the row with that primary key, 0 for None
SessionGet(ses, id) == IF id \in DOMAIN ses THEN id ELSE 0

\* ------------------------------------------------------------------ Session helpers
\* bug: counts the bookings of every session
BookedCountAllSessions(bk, sid) == Len(bk)

booked_count(bk, sid) == Cardinality({i \in DOMAIN bk : bk[i].session_id = sid})

spots_left(ses, bk, sid) == ses[sid].capacity - booked_count(bk, sid)

\* pytz.timezone(tz_name): the zone's UTC offset in minutes; unknown names raise
KnownZones == {"UTC", "Asia/Kolkata"}
UtcOffset(tz) == IF tz = "Asia/Kolkata" THEN 330 ELSE 0

\* datetime.astimezone(zone) followed by strftime("%Y-%m-%d %H:%M")
LocalStr(utc, tz) ==
  LET m == utc + UtcOffset(tz)
  IN [date |-> m \div 1440, hh |-> (m % 1440) \div 60, mm |-> m % 60]

start_time_local(ses, sid, tz) == LocalStr(ses[sid].start_time_utc, tz)
end_time_local(ses, sid, tz) == LocalStr(ses[sid].end_time_utc, tz)

\* ------------------------------------------------------------------ seeding
\* strptime(ist_str), localize to Asia/Kolkata, astimezone(UTC)
ist_str_to_utc(s) == (s.date * 1440 + s.hh * 60 + s.mm) - UtcOffset("Asia/Kolkata")

create_session(ses, class_id, start_ist, end_ist, capacity) ==
  Append(ses, [class_id |-> class_id,
               start_time_utc |-> ist_str_to_utc(start_ist),
               end_time_utc |-> ist_str_to_utc(end_ist),
               capacity |-> capacity])

DefaultClasses == <<"Yoga", "Zumba", "HIIT">>

RECURSIVE InsertClassesFrom(_, _)
InsertClassesFrom(cls, k) ==
  IF k > Len(DefaultClasses) THEN cls
  ELSE LET name == DefaultClasses[k]
       IN InsertClassesFrom(
            IF ClassByName(cls, name) = 0
              THEN Append(cls, [name |-> name, description |-> name \o " class"])
              ELSE cls,
            k + 1)

insert_default_classes(cls) == InsertClassesFrom(cls, 1)

SampleClients ==
  <<[name |-> "Alice", email |-> AliceEmail], [name |-> "Bob", email |-> BobEmail]>>

RECURSIVE InsertClientsFrom(_, _)
InsertClientsFrom(cli, k) ==
  IF k > Len(SampleClients) THEN cli
  ELSE InsertClientsFrom(
         IF ClientByEmail(cli, SampleClients[k].email) = 0
           THEN Append(cli, SampleClients[k])
           ELSE cli,
         k + 1)

insert_sample_clients(cli) == InsertClientsFrom(cli, 1)

\* class_specs flattened in dict order: (class name, "HH:MM")
ClassSpecs ==
  <<[class |-> "Yoga", hh |-> 7, mm |-> 0],
    [class |-> "Yoga", hh |-> 18, mm |-> 0],
    [class |-> "Zumba", hh |-> 8, mm |-> 0],
    [class |-> "HIIT", hh |-> 9, mm |-> 30]>>

\* (midnight.replace(hour, minute) + 1h).strftime("%H:%M"), on tomorrow's date
EndStr(tomorrow, hh, mm) ==
  LET e == (hh * 60 + mm + 60) % 1440
  IN [date |-> tomorrow, hh |-> e \div 60, mm |-> e % 60]

RECURSIVE InsertSessionsFrom(_, _, _, _)
InsertSessionsFrom(ses, cls, tomorrow, k) ==
  IF k > Len(ClassSpecs) THEN ses
  ELSE LET sp == ClassSpecs[k]
           cid == ClassByName(cls, sp.class)
           start_str == [date |-> tomorrow, hh |-> sp.hh, mm |-> sp.mm]
           end_str == EndStr(tomorrow, sp.hh, sp.mm)
       IN InsertSessionsFrom(
            IF cid # 0 /\ SessionByStart(ses, ist_str_to_utc(start_str)) = 0
              THEN create_session(ses, cid, start_str, end_str, SeedCapacity)
              ELSE ses,
            cls, tomorrow, k + 1)

insert_sample_sessions(ses, cls, day) == InsertSessionsFrom(ses, cls, day + 1, 1)

\* a worker between requests: no request in hand, no Booking object
NoBooking == [client_id |-> 0, session_id |-> 0]
NoRequest == [client_name |-> Absent, client_email |-> Absent, session_id |-> 0]
NoPending == [req |-> NoRequest, booking |-> NoBooking]
NoResponse == [op |-> "none", req |-> NoRequest, status |-> 0, body |-> [message |-> ""]]

Init ==
  /\ today = 0
  /\ classes = <<>>
  /\ clients = <<>>
  /\ sessions = <<>>
  /\ bookings = <<>>
  /\ pc = [w \in Workers |-> "idle"]
  /\ pending = [w \in Workers |-> NoPending]
  /\ lastResp = NoResponse
  /\ booked200 = {}
  /\ seedRuns = [d \in 0..MaxDay |-> 0]

\* ------------------------------------------------------------------ responses
MissingFieldResp ==
  [op |-> "book", status |-> 400,
   body |-> [error |-> "client_name and client_email and session_id required"]]
BookFailedResp ==
  [op |-> "book", status |-> 400,
   body |-> [message |-> "Booking failed - session full or already booked"]]
BookOkResp ==
  [op |-> "book", status |-> 200, body |-> [message |-> "Booking successful"]]
\* client is None at routes.py:52: AttributeError outside the try, Flask answers 500
BookUnhandledResp ==
  [op |-> "book", status |-> 500, body |-> [exception |-> "AttributeError"]]

\* ------------------------------------------------------------------ POST /book
\* bug: off by one, a session with no spot left is still bookable
SessionUnavailableOffByOne(ses, bk, sid) ==
  SessionGet(ses, sid) = 0 \/ spots_left(ses, bk, sid) < 0

\* `not session or session.spots_left() <= 0`
SessionUnavailable(ses, bk, sid) ==
  SessionGet(ses, sid) = 0 \/ spots_left(ses, bk, sid) <= 0

\* bug: the session is looked up before the fields are validated
BookLookupSessionFirst(req, ses, cli, bk) ==
  IF SessionUnavailable(ses, bk, req.session_id)
    THEN [next |-> "respond", resp |-> BookFailedResp, booking |-> NoBooking]
  ELSE IF ~(Truthy(req.client_name) /\ Truthy(req.client_email) /\ req.session_id # 0)
    THEN [next |-> "respond", resp |-> MissingFieldResp, booking |-> NoBooking]
  ELSE IF ClientByEmail(cli, req.client_email) = 0
    THEN [next |-> "respond", resp |-> BookUnhandledResp, booking |-> NoBooking]
  ELSE [next |-> "commit", resp |-> BookOkResp,
        booking |-> [client_id |-> ClientByEmail(cli, req.client_email),
                     session_id |-> req.session_id]]

\* routes.py:40-52: validation, the two lookups, and the Booking object
BookLookup(req, ses, cli, bk) ==
  IF ~(Truthy(req.client_name) /\ Truthy(req.client_email) /\ req.session_id # 0)
    THEN [next |-> "respond", resp |-> MissingFieldResp, booking |-> NoBooking]
  ELSE IF SessionUnavailable(ses, bk, req.session_id)
    THEN [next |-> "respond", resp |-> BookFailedResp, booking |-> NoBooking]
  ELSE IF ClientByEmail(cli, req.client_email) = 0
    THEN [next |-> "respond", resp |-> BookUnhandledResp, booking |-> NoBooking]
  ELSE [next |-> "commit", resp |-> BookOkResp,
        booking |-> [client_id |-> ClientByEmail(cli, req.client_email),
                     session_id |-> req.session_id]]

\* bug: the table has no uniqueness constraint
NoUniqueConstraint(bk, booking) == FALSE

\* UniqueConstraint("client_id", "session_id"): the INSERT is rejected
UniqueViolation(bk, booking) == \E i \in DOMAIN bk : bk[i] = booking

\* bug: no rollback, the rejected row stays in the table
BookInsertNoRollback(booking, bk) ==
  IF UniqueViolation(bk, booking)
    THEN [bookings |-> Append(bk, booking), resp |-> BookFailedResp]
    ELSE [bookings |-> Append(bk, booking), resp |-> BookOkResp]

\* routes.py:53-64: add + commit, or rollback on the IntegrityError
BookInsert(booking, bk) ==
  IF UniqueViolation(bk, booking)
    THEN [bookings |-> bk, resp |-> BookFailedResp]
    ELSE [bookings |-> Append(bk, booking), resp |-> BookOkResp]

Record200(resp, booking) ==
  IF resp.status = 200 THEN booked200 \cup {<<booking.client_id, booking.session_id>>}
  ELSE booked200

\* the response as the client sees it: the answer to its request
Answer(req, resp) ==
  [op |-> resp.op, req |-> req, status |-> resp.status, body |-> resp.body]

\* book_session up to the construction of the Booking (its reads of the store)
BookRead(w, req) ==
  /\ pc[w] = "idle"
  /\ LET r == BookLookup(req, sessions, clients, bookings)
     IN IF r.next = "respond"
          THEN /\ lastResp' = Answer(req, r.resp)
               /\ UNCHANGED <<pc, pending>>
          ELSE /\ pc' = [pc EXCEPT ![w] = "commit"]
               /\ pending' = [pending EXCEPT ![w] = [req |-> req, booking |-> r.booking]]
               /\ UNCHANGED lastResp
  /\ UNCHANGED <<today, classes, clients, sessions, bookings, booked200, seedRuns>>

\* book_session from db.session.add to the response
BookCommit(w) ==
  /\ pc[w] = "commit"
  /\ LET c == BookInsert(pending[w].booking, bookings)
     IN /\ bookings' = c.bookings
        /\ lastResp' = Answer(pending[w].req, c.resp)
        /\ booked200' = Record200(c.resp, pending[w].booking)
  /\ pc' = [pc EXCEPT ![w] = "idle"]
  /\ pending' = [pending EXCEPT ![w] = NoPending]
  /\ UNCHANGED <<today, classes, clients, sessions, seedRuns>>

\* book_session run from request to response with no other request in between
BookSeq(req) ==
  /\ \A w \in Workers : pc[w] = "idle"
  /\ LET r == BookLookup(req, sessions, clients, bookings)
         c == BookInsert(r.booking, bookings)
     IN IF r.next = "respond"
          THEN /\ lastResp' = Answer(req, r.resp)
               /\ UNCHANGED <<bookings, booked200>>
          ELSE /\ bookings' = c.bookings
               /\ lastResp' = Answer(req, c.resp)
               /\ booked200' = Record200(c.resp, r.booking)
  /\ UNCHANGED <<today, classes, clients, sessions, pc, pending, seedRuns>>

\* ------------------------------------------------------------------ GET /bookings
DefaultTimezone == "Asia/Kolkata"

\* the loop of routes.py:85-92 from the k-th booking of the client on;
\* pytz.timezone raises UnknownTimeZoneError inside the loop body
RECURSIVE BookingEntries(_, _, _, _, _, _)
BookingEntries(mine, k, tz, ses, cls, acc) ==
  IF k > Len(mine) THEN [raised |-> FALSE, result |-> acc]
  ELSE IF tz \notin KnownZones THEN [raised |-> TRUE, result |-> acc]
  ELSE LET sid == mine[k].session_id
       IN BookingEntries(mine, k + 1, tz, ses, cls,
            Append(acc, [session_id |-> sid,
                         class |-> cls[ses[sid].class_id].name,
                         start_time |-> start_time_local(ses, sid, tz),
                         end_time |-> end_time_local(ses, sid, tz)]))

\* bug: the relationship is not filtered by client
AllBookings(bk, cid) == bk

\* Client.bookings: the rows of the client, in id order
ClientBookings(bk, cid) ==
  LET OfClient(b) == b.client_id = cid IN SelectSeq(bk, OfClient)

get_bookings(req, cli, ses, cls, bk) ==
  LET tz == IF req.timezone = Absent THEN DefaultTimezone ELSE req.timezone
      cid == ClientByEmail(cli, req.email)
      mine == ClientBookings(bk, cid)
      loop == BookingEntries(mine, 1, tz, ses, cls, <<>>)
  IN IF ~Truthy(req.email)
       THEN [op |-> "bookings", status |-> 400,
             body |-> [error |-> "email query parameter is required"]]
     ELSE IF cid = 0
       THEN [op |-> "bookings", status |-> 404, body |-> [error |-> "Client not found"]]
     ELSE IF loop.raised
       THEN [op |-> "bookings", status |-> 400,
             body |-> [error |-> "Invalid timezone: " \o tz]]
     ELSE [op |-> "bookings", status |-> 200,
           body |-> [client |-> cli[cid].name, email |-> cli[cid].email,
                     bookings |-> loop.result]]

GetBookings(req) ==
  /\ lastResp' = Answer(req, get_bookings(req, clients, sessions, classes, bookings))
  /\ UNCHANGED <<today, classes, clients, sessions, bookings, pc, pending, booked200, seedRuns>>

\* ------------------------------------------------------------------ set-up and specifications
seed_all ==
  /\ classes' = insert_default_classes(classes)
  /\ clients' = insert_sample_clients(clients)
  /\ sessions' = insert_sample_sessions(sessions, classes', today)
  /\ seedRuns' = [seedRuns EXCEPT ![today] = IF @ < 2 THEN @ + 1 ELSE @]
  /\ UNCHANGED <<today, bookings, pc, pending, lastResp, booked200>>

\* create_session called by hand, as tests/test_api.py does: Yoga, tomorrow 07:00-08:00 IST
CreateSession(capacity) ==
  /\ Len(sessions) < MaxSessions
  /\ ClassByName(classes, "Yoga") # 0
  /\ sessions' = create_session(sessions, ClassByName(classes, "Yoga"),
                                [date |-> today + 1, hh |-> 7, mm |-> 0],
                                [date |-> today + 1, hh |-> 8, mm |-> 0], capacity)
  /\ UNCHANGED <<today, classes, clients, bookings, pc, pending, lastResp, booked200, seedRuns>>

\* midnight in Asia/Kolkata: datetime.now(ist).date() moves on
NextDay ==
  /\ today < MaxDay
  /\ today' = today + 1
  /\ UNCHANGED <<classes, clients, sessions, bookings, pc, pending, lastResp, booked200, seedRuns>>

\* init_db has run (create_all, then seed_all on the empty store): the app serves
InitServing ==
  /\ today = 0
  /\ classes = insert_default_classes(<<>>)
  /\ clients = insert_sample_clients(<<>>)
  /\ sessions = insert_sample_sessions(<<>>, classes, today)
  /\ bookings = <<>>
  /\ pc = [w \in Workers |-> "idle"]
  /\ pending = [w \in Workers |-> NoPending]
  /\ lastResp = NoResponse
  /\ booked200 = {}
  /\ seedRuns = [d \in 0..MaxDay |-> IF d = 0 THEN 1 ELSE 0]

\* requests served one at a time by the running app
Next ==
  \/ \E c \in 1..MaxCapacity : CreateSession(c)
  \/ \E req \in BookRequests : BookSeq(req)
  \/ \E req \in BookingsRequests : GetBookings(req)

Spec == InitServing /\ [][Next]_vars

\* the running app with one session made by hand (id 5), as make_demo_data leaves it
InitContended ==
  /\ today = 0
  /\ classes = insert_default_classes(<<>>)
  /\ clients = insert_sample_clients(<<>>)
  /\ \E c \in 1..MaxCapacity :
       sessions = create_session(insert_sample_sessions(<<>>, classes, today),
                                 ClassByName(classes, "Yoga"),
                                 [date |-> today + 1, hh |-> 7, mm |-> 0],
                                 [date |-> today + 1, hh |-> 8, mm |-> 0], c)
  /\ bookings = <<>>
  /\ pc = [w \in Workers |-> "idle"]
  /\ pending = [w \in Workers |-> NoPending]
  /\ lastResp = NoResponse
  /\ booked200 = {}
  /\ seedRuns = [d \in 0..MaxDay |-> IF d = 0 THEN 1 ELSE 0]

\* /book served by concurrent workers: the reads and the commit of one request
\* are separate steps, other requests run in between
NextConc ==
  \/ \E w \in Workers, req \in BookRequests : BookRead(w, req)
  \/ \E w \in Workers : BookCommit(w)

ConcSpec == InitContended /\ [][NextConc]_vars

\* the store seeded from empty, re-seeded on the same and on later days, with
\* bookings in between
NextSeed ==
  \/ seed_all
  \/ NextDay
  \/ \E req \in SeedBookRequests : BookSeq(req)

SeedSpec == Init /\ [][NextSeed]_vars

\* ------------------------------------------------------------------ properties
\* vocabulary of the properties, read off the tables directly
FieldsPresent(req) ==
  /\ req.client_name \notin {Absent, ""}
  /\ req.client_email \notin {Absent, ""}
  /\ req.session_id # 0

ClientIds(email) == {i \in DOMAIN clients : clients[i].email = email}
StoredOf(sid) == {i \in DOMAIN bookings : bookings[i].session_id = sid}
StoredFor(cid, sid) ==
  {i \in DOMAIN bookings : bookings[i].client_id = cid /\ bookings[i].session_id = sid}
SpotsOpen(sid) == sessions[sid].capacity - Cardinality(StoredOf(sid))
IsPrefix(a, b) == Len(a) <= Len(b) /\ SubSeq(b, 1, Len(a)) = a
\* a step of book_session answers its own request: in the properties below the
\* request of a step is read off the response (or the worker) the step leaves

\* C1: under any interleaving of concurrent book requests, no session ever has
\* more stored bookings than its capacity.
CapacityRespected ==
  \A sid \in DOMAIN sessions : Cardinality(StoredOf(sid)) <= sessions[sid].capacity

\* C2: at most one stored Booking per (client, session) pair under any interleaving;
\* a request for an already booked pair is answered 400 and stores nothing, at its
\* reads (session full) or at its commit (uniqueness constraint), spots left or not.
UniqueBookings ==
  \A i, j \in DOMAIN bookings :
    (bookings[i].client_id = bookings[j].client_id
       /\ bookings[i].session_id = bookings[j].session_id) => i = j

OnePerPairRepeatRejected ==
  [][/\ UniqueBookings'
     /\ \A w \in Workers :
          (BookCommit(w)
             /\ StoredFor(pending[w].booking.client_id, pending[w].booking.session_id) # {})
          => (lastResp'.status = 400 /\ lastResp'.req = pending[w].req
                /\ bookings' = bookings)
     /\ \A w \in Workers : \A req \in {lastResp'.req, pending'[w].req} :
          (BookRead(w, req) /\ FieldsPresent(req)
             /\ \E cid \in ClientIds(req.client_email) : StoredFor(cid, req.session_id) # {})
          => (bookings' = bookings
                /\ \/ pc'[w] = "commit"
                   \/ (lastResp'.req = req /\ lastResp'.status = 400))]_vars

\* C2 witness: a repeated request was answered 400 while its session has spots left
RepeatRejectedWithSpotsLeft ==
  /\ lastResp.op = "book"
  /\ lastResp.status = 400
  /\ FieldsPresent(lastResp.req)
  /\ lastResp.req.session_id \in DOMAIN sessions
  /\ SpotsOpen(lastResp.req.session_id) > 0
  /\ \E cid \in ClientIds(lastResp.req.client_email) :
       StoredFor(cid, lastResp.req.session_id) # {}

\* C3: served one at a time, a request with its three fields and the email of an
\* existing client is answered 200 and stores exactly one Booking for the pair iff
\* the session exists, has a spot left and the pair is not booked; otherwise it is
\* answered 400 and stores nothing. Every attempt on a session that holds as many
\* bookings as its capacity fails.
Admissible(req) ==
  /\ req.session_id \in DOMAIN sessions
  /\ SpotsOpen(req.session_id) > 0
  /\ \A cid \in ClientIds(req.client_email) : StoredFor(cid, req.session_id) = {}

BookedIffAdmissible ==
  [][\A req \in {lastResp'.req} :
       (lastResp'.op = "book" /\ BookSeq(req)) =>
         /\ (FieldsPresent(req) /\ ClientIds(req.client_email) # {}) =>
              IF Admissible(req)
                THEN /\ lastResp'.status = 200
                     /\ \E cid \in ClientIds(req.client_email) :
                          bookings' = Append(bookings, [client_id |-> cid,
                                                        session_id |-> req.session_id])
                ELSE lastResp'.status = 400 /\ bookings' = bookings
         /\ (req.session_id \in DOMAIN sessions /\ SpotsOpen(req.session_id) <= 0) =>
              (lastResp'.status = 400 /\ bookings' = bookings)]_vars

\* C3 witness: a session booked to capacity by distinct clients turned away a
\* further client, who holds no booking of it
FullSessionTurnedAway ==
  /\ lastResp.op = "book"
  /\ lastResp.status = 400
  /\ FieldsPresent(lastResp.req)
  /\ lastResp.req.session_id \in DOMAIN sessions
  /\ SpotsOpen(lastResp.req.session_id) = 0
  /\ UniqueBookings
  /\ \E cid \in ClientIds(lastResp.req.client_email) :
       StoredFor(cid, lastResp.req.session_id) = {}

\* C4: served one at a time, spots_left() of every session is its capacity minus
\* the number of its stored bookings, and is never negative.
SpotsLeftExactNonNegative ==
  \A sid \in DOMAIN sessions :
    /\ spots_left(sessions, bookings, sid)
         = sessions[sid].capacity - Cardinality(StoredOf(sid))
    /\ spots_left(sessions, bookings, sid) >= 0

\* C4 witness: a session is booked out while another session holds a booking too
BookedOutBesideAnother ==
  \E sid, other \in DOMAIN sessions :
    /\ sid # other
    /\ StoredOf(sid) # {}
    /\ StoredOf(other) # {}
    /\ spots_left(sessions, bookings, sid) = 0

\* C5: every book request with its three fields non-empty is answered 200 or 400,
\* also when client_email matches no stored client.
BookAnswered200Or400 ==
  (lastResp.op = "book" /\ FieldsPresent(lastResp.req)) => lastResp.status \in {200, 400}

\* C6: a book request with client_name, client_email or session_id absent or empty
\* is answered with the missing-field 400, whatever the state of the session, and
\* changes no table.
MissingFieldFirst ==
  [][\A req \in {lastResp'.req} :
       (lastResp'.op = "book" /\ BookSeq(req) /\ ~FieldsPresent(req)) =>
         /\ lastResp'.req = req
         /\ lastResp'.status = 400
         /\ DOMAIN lastResp'.body = {"error"}
         /\ UNCHANGED tables]_vars

\* C6 witness: the missing-field answer was given to a request naming a session
\* that is absent or full
MissingFieldOnUnavailableSession ==
  /\ lastResp.op = "book"
  /\ ~FieldsPresent(lastResp.req)
  /\ lastResp.status = 400
  /\ DOMAIN lastResp.body = {"error"}
  /\ lastResp.req.session_id # 0
  /\ \/ lastResp.req.session_id \notin DOMAIN sessions
     \/ SpotsOpen(lastResp.req.session_id) <= 0

\* C7: /bookings for the email of an existing client with an unrecognized timezone
\* name is answered 400, whatever the number of bookings of the client.
UnknownZoneRejected ==
  (/\ lastResp.op = "bookings"
   /\ lastResp.req.timezone \notin KnownZones \cup {Absent}
   /\ ClientIds(lastResp.req.email) # {})
  => lastResp.status = 400

\* C8 (as stated): /bookings with a valid timezone answers 404 for an email of no
\* stored client, and for an existing client 200 with exactly one entry per session
\* of which a book request by the client was answered 200, and no entry for a
\* session of which a (well-formed) book request by the client was answered 400.
Listing(req) == get_bookings(req, clients, sessions, classes, bookings)
EntriesOf(r, sid) == {k \in DOMAIN r.body.bookings : r.body.bookings[k].session_id = sid}
ListedSessions(r) ==
  DOMAIN sessions \cup {r.body.bookings[k].session_id : k \in DOMAIN r.body.bookings}
ValidListRequests ==
  {req \in BookingsRequests :
     req.email # Absent /\ req.timezone \in KnownZones \cup {Absent}}

ListsExactlyThe200s(req) ==
  IF ClientIds(req.email) = {}
    THEN Listing(req).status = 404
    ELSE /\ Listing(req).status = 200
         /\ \A cid \in ClientIds(req.email) : \A sid \in ListedSessions(Listing(req)) :
              Cardinality(EntriesOf(Listing(req), sid))
                = IF <<cid, sid>> \in booked200 THEN 1 ELSE 0

ListingOmitsEvery400 ==
  \A req \in ValidListRequests :
    /\ ListsExactlyThe200s(req)
    /\ (/\ ClientIds(req.email) # {}
        /\ lastResp.op = "book"
        /\ lastResp.status = 400
        /\ FieldsPresent(lastResp.req)
        /\ lastResp.req.client_email = req.email)
       => EntriesOf(Listing(req), lastResp.req.session_id) = {}

\* C8 (amended): as above, but no entry only for the sessions of which no book
\* request by the client was answered 200.
ListingIsThe200s == \A req \in ValidListRequests : ListsExactlyThe200s(req)

\* C8 witness: /bookings listed two sessions for a client while a session that
\* turned the other client away is booked out
TwoSessionsListed ==
  /\ lastResp.op = "bookings"
  /\ lastResp.status = 200
  /\ Len(lastResp.body.bookings) = 2
  /\ \E sid \in DOMAIN sessions, cid \in DOMAIN clients :
       SpotsOpen(sid) = 0 /\ StoredFor(cid, sid) = {}

\* C9: seed_all on the empty store leaves exactly Yoga, Zumba, HIIT, the 2 demo
\* clients and 4 sessions (Yoga 2, Zumba 1, HIIT 1); run again on a day it has
\* already run on, whatever was booked since, it changes no table.
SessionsOfClass(name) ==
  {i \in DOMAIN sessions : classes[sessions[i].class_id].name = name}

SeededExactly ==
  /\ Len(classes) = 3
  /\ {classes[i].name : i \in DOMAIN classes} = {"Yoga", "Zumba", "HIIT"}
  /\ Len(clients) = 2
  /\ {clients[i].email : i \in DOMAIN clients} = {AliceEmail, BobEmail}
  /\ Len(sessions) = 4
  /\ Cardinality(SessionsOfClass("Yoga")) = 2
  /\ Cardinality(SessionsOfClass("Zumba")) = 1
  /\ Cardinality(SessionsOfClass("HIIT")) = 1

SeedIdempotent ==
  [][seed_all =>
       /\ (classes = <<>> /\ clients = <<>> /\ sessions = <<>> /\ bookings = <<>>)
            => SeededExactly'
       /\ seedRuns[today] >= 1 => UNCHANGED tables]_vars

\* C9 witness: seed_all has run again on a day it had run on, and bookings exist
ReseededWithBookings == seedRuns[today] = 2 /\ bookings # <<>>

\* C10: a book request answered 400 leaves the four tables as they were; one
\* answered 200 changes nothing but adds one Booking; no step removes or modifies
\* a stored Booking.
BookFrame ==
  [][/\ \A req \in {lastResp'.req} :
          (lastResp'.op = "book" /\ BookSeq(req)) =>
            /\ UNCHANGED <<classes, clients, sessions>>
            /\ lastResp'.status = 400 => bookings' = bookings
            /\ lastResp'.status = 200 => Len(bookings') = Len(bookings) + 1
     /\ IsPrefix(bookings, bookings')]_vars

\* C10 witness: the uniqueness constraint rejected a commit (the session has a spot
\* left, the pair is stored once) beside a booking of another session
RolledBackBesideOthers ==
  /\ lastResp.op = "book"
  /\ lastResp.status = 400
  /\ DOMAIN lastResp.body = {"message"}
  /\ lastResp.req.session_id \in DOMAIN sessions
  /\ SpotsOpen(lastResp.req.session_id) > 0
  /\ \E cid \in DOMAIN clients :
       /\ clients[cid].email = lastResp.req.client_email
       /\ Cardinality(StoredFor(cid, lastResp.req.session_id)) = 1
  /\ \E i \in DOMAIN bookings : bookings[i].session_id # lastResp.req.session_id
====
